---- MODULE Spec2Model ----
(***************************************************************************)
(* Model of rust/xtask/src/main.rs: the xtask command-line tool of         *)
(* RustyGodot.  One behaviour is a sequence of invocations of the tool on  *)
(* one host; the state is the part of the filesystem the tool reads and    *)
(* writes, the position of the running invocation, and a log of what the   *)
(* invocation did (requests sent, processes spawned, functions returned).  *)
(***************************************************************************)
EXTENDS Naturals, Integers, Sequences, FiniteSets, TLC

VARIABLES
    host,      \* the target_os the tool was compiled for (cfg!, lines 65-73)
    fs,        \* the filesystem: path -> node (std::fs, line 3)
    fs0,       \* fs as the running invocation found it
    cmd,       \* cli.command of the running invocation (line 41)
    pc,        \* the step main or the function it called is at
    result,    \* what main returned: "none" while running, "ok", "err"
    err,       \* the error main returned
    log,       \* requests, child processes and returns of the invocation
    resp,      \* setup_godot's downloaded archive (lines 92, 148)
    runs,      \* invocations so far
    setup_ok   \* an earlier invocation of setup returned Ok

vars == <<host, fs, fs0, cmd, pc, result, err, log, resp, runs, setup_ok>>

(***************************************************************************)
(* Bounds.                                                                 *)
(***************************************************************************)
\* number of invocations of the tool in one behaviour
MaxRuns == 2
\* child processes exit with a status in 0..MaxExit
MaxExit == 1

ExitCodes == 0..MaxExit

(***************************************************************************)
(* Program constants.                                                      *)
(***************************************************************************)
GODOT_VERSION == "4.6-stable"
GODOT_VERSION_FULL == "4.6.0-stable"
BASE_URL == "https://github.com/godotengine/godot/releases/download"

\* the compile-time target_os values; "freebsd" stands for every other target
Hosts == {"windows", "macos", "linux", "freebsd"}

\* cfg(unix)
IsUnix(h) == h # "windows"

\* the Commands enum, with Build's --release flag
Commands ==
    {[name |-> "setup", release |-> FALSE],
     [name |-> "build", release |-> FALSE],
     [name |-> "build", release |-> TRUE],
     [name |-> "editor", release |-> FALSE],
     [name |-> "run", release |-> FALSE],
     [name |-> "package", release |-> FALSE]}

NoCmd == [name |-> "none", release |-> FALSE]

(***************************************************************************)
(* Paths are sequences of components, relative to the working directory    *)
(* (root) unless their first component is an OS-standard base directory.   *)
(***************************************************************************)
Root == <<>>

Parent(p) == SubSeq(p, 1, Len(p) - 1)

IsPrefix(a, b) == Len(a) <= Len(b) /\ SubSeq(b, 1, Len(a)) = a

Prefixes(p) == {SubSeq(p, 1, i) : i \in 0..Len(p)}

RECURSIVE PathStr(_)
PathStr(p) ==
    IF p = <<>> THEN ""
    ELSE IF Len(p) = 1 THEN p[1]
    ELSE p[1] \o "/" \o PathStr(Tail(p))

\* get_os_info: (zip_suffix, bin_relative_path)
get_os_info(h) ==
    IF h = "windows" THEN <<"win64.exe.zip", <<"Godot_v4.6-stable_win64.exe">>>>
    ELSE IF h = "macos" THEN <<"macos.universal.zip", <<"Godot.app", "Contents", "MacOS", "Godot">>>>
    ELSE <<"linux.x86_64.zip", <<"Godot_v4.6-stable_linux.x86_64">>>>

\* get_platform_export_name: (platform_name, output_ext)
get_platform_export_name(h) ==
    IF h = "windows" THEN <<"Windows Desktop", ".exe">>
    ELSE IF h = "macos" THEN <<"macOS", ".zip">>
    ELSE <<"Linux", "">>

\* get_godot_templates_dir; the first component is the directory the dirs
\* crate returns (home_dir, data_dir, data_local_dir)
get_godot_templates_dir(h) ==
    IF h = "macos" THEN <<"~", "Library", "Application Support", "Godot", "export_templates">>
    ELSE IF h = "windows" THEN <<"%APPDATA%", "Godot", "export_templates">>
    ELSE <<"~/.local/share", "godot", "export_templates">>

BaseDir(h) == <<get_godot_templates_dir(h)[1]>>

bin_dir == <<".godot_bin">>
godot_exe(h) == bin_dir \o get_os_info(h)[2]
tmp_extract == <<".godot_bin", "tmp_templates">>
extracted_folder == tmp_extract \o <<"templates">>
version_dir(h) == get_godot_templates_dir(h) \o <<GODOT_VERSION_FULL>>
game_dir == <<"game">>
project_file == game_dir \o <<"project.godot">>
presets_path == game_dir \o <<"export_presets.cfg">>

\* generate_gdextension_file: the path of the descriptor
gdext_path(crate_name) == game_dir \o <<crate_name \o ".gdextension">>

\* the URLs setup_godot requests
EditorUrl(h) ==
    BASE_URL \o "/" \o GODOT_VERSION \o "/Godot_v" \o GODOT_VERSION \o "_" \o get_os_info(h)[1]
TemplatesUrl ==
    BASE_URL \o "/" \o GODOT_VERSION \o "/Godot_v" \o GODOT_VERSION \o "_export_templates.tpz"

(***************************************************************************)
(* build_and_install's per-OS selection (lines 221-244).                   *)
(***************************************************************************)
target_dir(release) == <<"target", IF release THEN "release" ELSE "debug">>

output_root == <<"game", "bin", "game">>

Supported(h) == h \in {"windows", "linux", "macos"}

\* mutant of BuildTarget: the macOS output directory without its arm64 level
BuildTarget_MacNoArch(h) ==
    IF h = "windows" THEN <<"dll", "game", output_root \o <<"windows">>>>
    ELSE IF h = "linux" THEN <<"so", "libgame", output_root \o <<"linux">>>>
    ELSE <<"dylib", "libgame", output_root \o <<"macos">>>>

\* (ext, crate_name, output_dir) of lines 228-236, for a supported host
BuildTarget(h) ==
    IF h = "windows" THEN <<"dll", "game", output_root \o <<"windows">>>>
    ELSE IF h = "linux" THEN <<"so", "libgame", output_root \o <<"linux">>>>
    ELSE <<"dylib", "libgame", output_root \o <<"macos", "arm64">>>>

ArtifactName(h) == BuildTarget(h)[2] \o "." \o BuildTarget(h)[1]
ArtifactSrc(h, release) == target_dir(release) \o <<ArtifactName(h)>>
ArtifactDst(h) == BuildTarget(h)[3] \o <<ArtifactName(h)>>

\* package_game: builds/<platform_name>/game<output_ext>
builds_dir == <<"builds">>
output_path(h) ==
    builds_dir \o <<get_platform_export_name(h)[1]>>
               \o <<"game" \o get_platform_export_name(h)[2]>>

(***************************************************************************)
(* File contents are sets of <<key, value>> lines.                         *)
(***************************************************************************)
Absent == [kind |-> "absent", data |-> {}]
Dir == [kind |-> "dir", data |-> {}]
File(d) == [kind |-> "file", data |-> d]

\* generate_gdextension_file: the text written, as its key = value lines
GdextContent(crate_name) ==
    {<<"entry_symbol", "gdext_rust_init">>,
     <<"compatibility_minimum", "4.1">>,
     <<"linux.debug.x86_64", "res://bin/" \o crate_name \o "/linux/lib" \o crate_name \o ".so">>,
     <<"linux.release.x86_64", "res://bin/" \o crate_name \o "/linux/lib" \o crate_name \o ".so">>,
     <<"macos.debug.arm64", "res://bin/" \o crate_name \o "/macos/arm64/lib" \o crate_name \o ".dylib">>,
     <<"macos.release.arm64", "res://bin/" \o crate_name \o "/macos/arm64/lib" \o crate_name \o ".dylib">>,
     <<"windows.debug.x86_64", "res://bin/" \o crate_name \o "/windows/" \o crate_name \o ".dll">>,
     <<"windows.release.x86_64", "res://bin/" \o crate_name \o "/windows/" \o crate_name \o ".dll">>}

\* run_godot: the minimal project.godot
ProjectContent ==
    {<<"config_version", "5">>,
     <<"config/name", "My Rust Game">>,
     <<"config/features", "PackedStringArray(4.6, Forward Plus)">>,
     <<"config/icon", "res://icon.svg">>,
     <<"project/assembly_name", "My Rust Game">>}

\* ensure_export_presets: the default preset for the host platform
PresetsContent(h) ==
    {<<"name", get_platform_export_name(h)[1]>>,
     <<"platform", get_platform_export_name(h)[1]>>,
     <<"runnable", "true">>,
     <<"custom_features", "">>,
     <<"export_filter", "all_resources">>,
     <<"include_filter", "">>,
     <<"exclude_filter", "">>,
     <<"export_path", "../builds/" \o get_platform_export_name(h)[1] \o "/game">>,
     <<"patch_list", "PackedStringArray()">>}

\* content a user wrote by hand
UserContent == {<<"edited", "by user">>}

\* what cargo leaves at the artifact path; the profile tells builds apart
ArtifactContent(release) == {<<"profile", IF release THEN "release" ELSE "debug">>}

\* the engine executable as unpacked, and after set_mode(0o755)
ExeUnpacked == {<<"mode", "644">>}
ExeRunnable == {<<"mode", "755">>}

\* Godot.app as unpacked on macOS carries the quarantine attribute
Quarantined == [kind |-> "dir", data |-> {<<"xattr", "com.apple.quarantine">>}]

(***************************************************************************)
(* The filesystem: a function from the paths the tool can touch on host h  *)
(* to nodes.                                                               *)
(***************************************************************************)
Leaves(h) ==
    {godot_exe(h),
     bin_dir \o <<"Godot_renamed">>,
     extracted_folder \o <<"version.txt">>,
     tmp_extract \o <<"version.txt">>,
     version_dir(h) \o <<"version.txt">>,
     project_file, presets_path, gdext_path("game"),
     output_path(h),
     output_root}
    \cup (IF Supported(h)
          THEN {ArtifactSrc(h, FALSE), ArtifactSrc(h, TRUE), ArtifactDst(h)}
          ELSE {target_dir(FALSE), target_dir(TRUE)})

Paths(h) == UNION {Prefixes(p) : p \in Leaves(h)}

Exists(f, p) == p \in DOMAIN f /\ f[p].kind # "absent"
IsDir(f, p) == p \in DOMAIN f /\ f[p].kind = "dir"
IsFile(f, p) == p \in DOMAIN f /\ f[p].kind = "file"

\* fs::create_dir_all
MkdirAll(f, p) ==
    [q \in DOMAIN f |-> IF IsPrefix(q, p) /\ f[q].kind = "absent" THEN Dir ELSE f[q]]

\* fs::create_dir
Mkdir(f, p) == [f EXCEPT ![p] = Dir]

\* fs::write, File::create + write_all, fs::copy's destination
WriteFile(f, p, d) == [f EXCEPT ![p] = File(d)]

\* fs::remove_dir_all
RemoveAll(f, p) ==
    [q \in DOMAIN f |-> IF IsPrefix(p, q) THEN Absent ELSE f[q]]

\* the part of q below p
Below(p, q) == SubSeq(q, Len(p) + 1, Len(q))

\* fs::rename of a directory onto a path that does not exist
Rename(f, src, dst) ==
    [q \in DOMAIN f |->
        IF IsPrefix(src, q) THEN Absent
        ELSE IF IsPrefix(dst, q) /\ (src \o Below(dst, q)) \in DOMAIN f
             THEN f[src \o Below(dst, q)]
        ELSE f[q]]

\* fs_extra::dir::copy with content_only(true): the entries below src
CopyContent(f, src, dst) ==
    [q \in DOMAIN f |->
        IF IsPrefix(dst, q) /\ q # dst /\ (src \o Below(dst, q)) \in DOMAIN f
           /\ Exists(f, src \o Below(dst, q))
        THEN f[src \o Below(dst, q)]
        ELSE f[q]]

\* ZipArchive::extract(dir): members is a set of <<relative path, node>>
Extract(f, dir, members) ==
    LET g == MkdirAll(f, dir)
        Files == {dir \o m[1] : m \in members}
        NodeOf(q) == (CHOOSE m \in members : dir \o m[1] = q)[2]
    IN [q \in DOMAIN g |->
          IF q \in Files THEN NodeOf(q)
          ELSE IF (\E t \in Files : IsPrefix(q, t)) /\ g[q].kind = "absent" THEN Dir
          ELSE g[q]]

(***************************************************************************)
(* The log of one invocation, errors, and main's sequencing.               *)
(***************************************************************************)
Get(url, ok) == [ev |-> "GET", what |-> url, code |-> IF ok THEN 0 ELSE 1]
\* code -1: the process could not be spawned
Spawn(prog, code) == [ev |-> "spawn", what |-> prog, code |-> code]
Ret(fn, ok) == [ev |-> "return", what |-> fn, code |-> IF ok THEN 0 ELSE 1]
Did(what) == [ev |-> "did", what |-> what, code |-> 0]
Println(msg) == [ev |-> "println", what |-> msg, code |-> 0]

NoErr == [kind |-> "none", path |-> <<>>]
Error(kind) == [kind |-> kind, path |-> <<>>]
ErrorAt(kind, p) == [kind |-> kind, path |-> p]

\* mutant of AfterReturn: the calls of main without their ?
AfterReturn_ErrIgnored(c, fn, ok) ==
    IF fn = "build_and_install" /\ c.name \in {"editor", "run"} THEN "run_check_exe"
    ELSE IF fn = "build_and_install" /\ c.name = "package" THEN "ensure_export_presets"
    ELSE IF fn = "ensure_export_presets" THEN "pkg_mkdir_builds"
    ELSE "done"

\* main's match (lines 44-60): where control goes when fn returns; every call
\* is followed by ?, so an Err ends the invocation
AfterReturn(c, fn, ok) ==
    IF ~ok THEN "done"
    ELSE IF fn = "build_and_install" /\ c.name \in {"editor", "run"} THEN "run_check_exe"
    ELSE IF fn = "build_and_install" /\ c.name = "package" THEN "ensure_export_presets"
    ELSE IF fn = "ensure_export_presets" THEN "pkg_mkdir_builds"
    ELSE "done"

\* the position main starts a subcommand at
FirstStep(c) == IF c.name = "setup" THEN "setup_mkdir_bin" ELSE "build_cargo"

\* build_and_install's release argument at each call site of main
ReleaseArg(c) == IF c.name = "package" THEN TRUE ELSE c.release

\* fn returns Err(e): ? hands it to main, which returns it
Fail(fn, e, lg) ==
    /\ pc' = AfterReturn(cmd, fn, FALSE)
    /\ result' = "err"
    /\ err' = e
    /\ log' = Append(lg, Ret(fn, FALSE))

\* fn returns Ok(())
Finish(fn, lg) ==
    /\ pc' = AfterReturn(cmd, fn, TRUE)
    /\ result' = IF AfterReturn(cmd, fn, TRUE) = "done" THEN "ok" ELSE result
    /\ err' = err
    /\ log' = Append(lg, Ret(fn, TRUE))

Goto(l, lg) ==
    /\ pc' = l
    /\ log' = lg
    /\ UNCHANGED <<result, err>>

(***************************************************************************)
(* Initial states: a working tree before the first invocation.             *)
(***************************************************************************)
EmptyFs(h) == [p \in Paths(h) |-> IF p = Root \/ p = BaseDir(h) THEN Dir ELSE Absent]

\* the members of the editor archive, by what the release archive holds
EditorMembers(h, archive) ==
    IF archive = "renamed" THEN {<<<<"Godot_renamed">>, File(ExeUnpacked)>>}
    ELSE IF h = "macos"
         THEN {<<<<"Godot.app">>, Quarantined>>, <<get_os_info(h)[2], File(ExeUnpacked)>>}
         ELSE {<<get_os_info(h)[2], File(ExeUnpacked)>>}

\* the members of the export templates archive
TemplateMembers(archive) ==
    IF archive = "good" THEN {<<<<"templates", "version.txt">>, File({<<"version", GODOT_VERSION_FULL>>})>>}
    ELSE {<<<<"version.txt">>, File({<<"version", GODOT_VERSION_FULL>>})>>}

Provisioned(f, h) ==
    LET g == Extract(f, bin_dir, EditorMembers(h, "good"))
    IN [g EXCEPT ![godot_exe(h)] = File(IF IsUnix(h) THEN ExeRunnable ELSE ExeUnpacked)]

WithTemplates(f, h) ==
    WriteFile(MkdirAll(f, version_dir(h)), version_dir(h) \o <<"version.txt">>,
              {<<"version", GODOT_VERSION_FULL>>})

\* a project directory whose three generated files the user has edited
WithGame(f, edited) ==
    IF ~edited THEN f
    ELSE LET g == MkdirAll(f, game_dir)
         IN [g EXCEPT ![project_file] = File(UserContent),
                      ![presets_path] = File(UserContent),
                      ![gdext_path("game")] = File(UserContent)]

InitFs(h) ==
    {WithGame(IF t THEN WithTemplates(IF p THEN Provisioned(EmptyFs(h), h) ELSE EmptyFs(h), h)
              ELSE (IF p THEN Provisioned(EmptyFs(h), h) ELSE EmptyFs(h)), g) :
        <<p, t, g>> \in BOOLEAN \X BOOLEAN \X BOOLEAN}

Init ==
    /\ host \in Hosts
    /\ fs \in InitFs(host)
    /\ fs0 = fs
    /\ cmd = NoCmd
    /\ pc = "idle"
    /\ result = "none"
    /\ err = NoErr
    /\ log = <<>>
    /\ resp = "none"
    /\ runs = 0
    /\ setup_ok = FALSE

\* the operator runs the tool: main parses the command line.  fs0 keeps the
\* filesystem as the invocation found it; setup_ok records that an earlier
\* invocation of setup returned Ok
Invoke ==
    /\ pc \in {"idle", "done"}
    /\ runs < MaxRuns
    /\ \E c \in Commands :
        /\ cmd' = c
        /\ pc' = FirstStep(c)
    /\ runs' = runs + 1
    /\ fs0' = fs
    /\ result' = "none"
    /\ err' = NoErr
    /\ log' = <<>>
    /\ resp' = "none"
    /\ setup_ok' = (setup_ok \/ (cmd.name = "setup" /\ result = "ok"))
    /\ UNCHANGED <<host, fs>>

(***************************************************************************)
(* setup_godot                                                             *)
(***************************************************************************)
\* lines 76-81
SetupMkdirBin ==
    /\ pc = "setup_mkdir_bin"
    /\ IF Exists(fs, bin_dir)
       THEN /\ Goto("setup_download_editor", log)
            /\ UNCHANGED fs
       ELSE \E ok \in BOOLEAN :
              IF ok THEN /\ fs' = Mkdir(fs, bin_dir)
                         /\ Goto("setup_download_editor", log)
              ELSE /\ Fail("setup_godot", ErrorAt("Io", bin_dir), log)
                   /\ UNCHANGED fs
    /\ UNCHANGED <<host, fs0, cmd, resp, runs, setup_ok>>

\* lines 83-92: the request for the editor archive is sent whatever is on disk
SetupDownloadEditor ==
    /\ pc = "setup_download_editor"
    /\ \E got \in {"fail", "good", "renamed", "corrupt"} :
        IF got = "fail"
        THEN /\ Fail("setup_godot", Error("Network"), Append(log, Get(EditorUrl(host), FALSE)))
             /\ UNCHANGED resp
        ELSE /\ Goto("setup_extract_editor", Append(log, Get(EditorUrl(host), TRUE)))
             /\ resp' = got
    /\ UNCHANGED <<host, fs, fs0, cmd, runs, setup_ok>>

\* lines 94-95
SetupExtractEditor ==
    /\ pc = "setup_extract_editor"
    /\ IF resp = "corrupt"
       THEN /\ Fail("setup_godot", Error("Zip"), log)
            /\ UNCHANGED fs
       ELSE \E ok \in BOOLEAN :
              IF ok THEN /\ fs' = Extract(fs, bin_dir, EditorMembers(host, resp))
                         /\ Goto("setup_check_binary", log)
              ELSE /\ Fail("setup_godot", ErrorAt("Io", bin_dir), log)
                   /\ UNCHANGED fs
    /\ resp' = "none"
    /\ UNCHANGED <<host, fs0, cmd, runs, setup_ok>>

\* lines 97-100
SetupCheckBinary ==
    /\ pc = "setup_check_binary"
    /\ IF ~Exists(fs, godot_exe(host))
       THEN Fail("setup_godot", ErrorAt("ExtractedBinaryNotFound", godot_exe(host)), log)
       ELSE Goto("setup_fix_perms", log)
    /\ UNCHANGED <<host, fs, fs0, cmd, resp, runs, setup_ok>>

\* lines 102-126: set_mode(0o755) under cfg(unix); on macOS the quarantine
\* attribute is removed if xattr manages to, and its status is discarded
SetupFixPerms ==
    /\ pc = "setup_fix_perms"
    /\ IF ~IsUnix(host)
       THEN /\ Goto("setup_check_templates", log)
            /\ UNCHANGED fs
       ELSE \E ok \in BOOLEAN, stripped \in (IF host = "macos" THEN BOOLEAN ELSE {FALSE}) :
              IF ok
              THEN /\ fs' = [fs EXCEPT ![godot_exe(host)] = File(ExeRunnable),
                                       ![bin_dir \o <<get_os_info(host)[2][1]>>] =
                                            IF stripped THEN Dir ELSE @]
                   /\ Goto("setup_check_templates",
                           IF host = "macos"
                           THEN Append(log, Spawn("xattr", IF stripped THEN 0 ELSE 1))
                           ELSE log)
              ELSE /\ ~stripped
                   /\ Fail("setup_godot", ErrorAt("Io", godot_exe(host)), log)
                   /\ UNCHANGED fs
    /\ UNCHANGED <<host, fs0, cmd, resp, runs, setup_ok>>

\* mutant of SetupCheckTemplates: no early return when the templates are there
SetupCheckTemplates_AlwaysDownload ==
    /\ pc = "setup_check_templates"
    /\ Goto("setup_download_templates", log)
    /\ UNCHANGED <<host, fs, fs0, cmd, resp, runs, setup_ok>>

\* lines 128-137
SetupCheckTemplates ==
    /\ pc = "setup_check_templates"
    /\ IF Exists(fs, version_dir(host))
       THEN Finish("setup_godot", Append(log, Println("Templates already installed")))
       ELSE Goto("setup_download_templates", log)
    /\ UNCHANGED <<host, fs, fs0, cmd, resp, runs, setup_ok>>

\* lines 139-151
SetupDownloadTemplates ==
    /\ pc = "setup_download_templates"
    /\ \E got \in {"fail", "good", "no_templates", "corrupt"} :
        IF got = "fail"
        THEN /\ Fail("setup_godot", Error("Network"), Append(log, Get(TemplatesUrl, FALSE)))
             /\ UNCHANGED resp
        ELSE IF got = "corrupt"
        THEN /\ Fail("setup_godot", Error("Zip"), Append(log, Get(TemplatesUrl, TRUE)))
             /\ UNCHANGED resp
        ELSE /\ Goto("setup_clean_tmp", Append(log, Get(TemplatesUrl, TRUE)))
             /\ resp' = got
    /\ UNCHANGED <<host, fs, fs0, cmd, runs, setup_ok>>

\* lines 153-155
SetupCleanTmp ==
    /\ pc = "setup_clean_tmp"
    /\ IF ~Exists(fs, tmp_extract)
       THEN /\ Goto("setup_extract_tpz", log)
            /\ UNCHANGED <<fs, resp>>
       ELSE \E ok \in BOOLEAN :
              IF ok THEN /\ fs' = RemoveAll(fs, tmp_extract)
                         /\ Goto("setup_extract_tpz", log)
                         /\ UNCHANGED resp
              ELSE /\ Fail("setup_godot", ErrorAt("Io", tmp_extract), log)
                   /\ resp' = "none"
                   /\ UNCHANGED fs
    /\ UNCHANGED <<host, fs0, cmd, runs, setup_ok>>

\* line 156; a failed extraction leaves the scratch directory behind
SetupExtractTpz ==
    /\ pc = "setup_extract_tpz"
    /\ \E ok \in BOOLEAN :
        IF ok THEN /\ fs' = Extract(fs, tmp_extract, TemplateMembers(resp))
                   /\ Goto("setup_mkdir_template_dir", Append(log, Did("extract_templates")))
        ELSE /\ fs' = MkdirAll(fs, tmp_extract)
             /\ Fail("setup_godot", ErrorAt("Io", tmp_extract), log)
    /\ resp' = "none"
    /\ UNCHANGED <<host, fs0, cmd, runs, setup_ok>>

\* lines 158-159
SetupMkdirTemplateDir ==
    /\ pc = "setup_mkdir_template_dir"
    /\ \E ok \in BOOLEAN :
        IF ok THEN /\ fs' = MkdirAll(fs, get_godot_templates_dir(host))
                   /\ Goto("setup_check_extracted", log)
        ELSE /\ Fail("setup_godot", ErrorAt("Io", get_godot_templates_dir(host)), log)
             /\ UNCHANGED fs
    /\ UNCHANGED <<host, fs0, cmd, resp, runs, setup_ok>>

\* lines 160-164
SetupCheckExtracted ==
    /\ pc = "setup_check_extracted"
    /\ IF ~Exists(fs, extracted_folder)
       THEN Fail("setup_godot", ErrorAt("TemplatesFolderMissing", extracted_folder), log)
       ELSE Goto("setup_install_templates", log)
    /\ UNCHANGED <<host, fs, fs0, cmd, resp, runs, setup_ok>>

\* lines 166-174: rename, and on its failure create_dir_all + copy
SetupInstallTemplates ==
    /\ pc = "setup_install_templates"
    /\ \E how \in {"renamed", "copied", "mkdir_failed", "copy_failed"} :
        IF how = "renamed"
        THEN /\ fs' = Rename(fs, extracted_folder, version_dir(host))
             /\ Goto("setup_cleanup", Append(log, Did("rename")))
        ELSE IF how = "copied"
        THEN /\ fs' = CopyContent(MkdirAll(fs, version_dir(host)), extracted_folder, version_dir(host))
             /\ Goto("setup_cleanup", Append(log, Did("copy")))
        ELSE IF how = "mkdir_failed"
        THEN /\ Fail("setup_godot", ErrorAt("Io", version_dir(host)), log)
             /\ UNCHANGED fs
        ELSE /\ fs' = MkdirAll(fs, version_dir(host))
             /\ Fail("setup_godot", ErrorAt("Copy", version_dir(host)), log)
    /\ UNCHANGED <<host, fs0, cmd, resp, runs, setup_ok>>

\* mutant of SetupCleanup: the scratch directory is not removed
SetupCleanup_Forgotten ==
    /\ pc = "setup_cleanup"
    /\ Finish("setup_godot", log)
    /\ UNCHANGED <<host, fs, fs0, cmd, resp, runs, setup_ok>>

\* lines 176-180
SetupCleanup ==
    /\ pc = "setup_cleanup"
    /\ \E ok \in BOOLEAN :
        IF ok THEN /\ fs' = RemoveAll(fs, tmp_extract)
                   /\ Finish("setup_godot", log)
        ELSE /\ Fail("setup_godot", ErrorAt("Io", tmp_extract), log)
             /\ UNCHANGED fs
    /\ UNCHANGED <<host, fs0, cmd, resp, runs, setup_ok>>

setup_godot ==
    \/ SetupMkdirBin \/ SetupDownloadEditor \/ SetupExtractEditor \/ SetupCheckBinary
    \/ SetupFixPerms \/ SetupCheckTemplates \/ SetupDownloadTemplates \/ SetupCleanTmp
    \/ SetupExtractTpz \/ SetupMkdirTemplateDir \/ SetupCheckExtracted
    \/ SetupInstallTemplates \/ SetupCleanup

(***************************************************************************)
(* build_and_install and generate_gdextension_file                         *)
(***************************************************************************)
\* mutant of BuildCargo: the exit status of cargo is not looked at
BuildCargo_StatusIgnored ==
    /\ pc = "build_cargo"
    /\ \E code \in {-1} \cup ExitCodes, produced \in (IF Supported(host) THEN BOOLEAN ELSE {FALSE}) :
        LET rel == ReleaseArg(cmd)
            built == IF produced
                     THEN WriteFile(MkdirAll(fs, target_dir(rel)), ArtifactSrc(host, rel),
                                    ArtifactContent(rel))
                     ELSE fs
        IN IF code = -1
           THEN /\ ~produced
                /\ Fail("build_and_install", Error("Io"), Append(log, Spawn("cargo", code)))
                /\ UNCHANGED fs
           ELSE /\ Goto("build_mkdir_output", Append(log, Spawn("cargo", code)))
                /\ fs' = built
    /\ UNCHANGED <<host, fs0, cmd, resp, runs, setup_ok>>

\* lines 207-218: cargo build [--release].  cargo is an external process:
\* whatever its status, it may or may not have left an artifact at the path
\* the tool expects
BuildCargo ==
    /\ pc = "build_cargo"
    /\ \E code \in {-1} \cup ExitCodes, produced \in (IF Supported(host) THEN BOOLEAN ELSE {FALSE}) :
        LET rel == ReleaseArg(cmd)
            built == IF produced
                     THEN WriteFile(MkdirAll(fs, target_dir(rel)), ArtifactSrc(host, rel),
                                    ArtifactContent(rel))
                     ELSE fs
        IN IF code = -1
           THEN /\ ~produced
                /\ Fail("build_and_install", Error("Io"), Append(log, Spawn("cargo", code)))
                /\ UNCHANGED fs
           ELSE IF code # 0
           THEN /\ Fail("build_and_install", Error("CargoBuildFailed"),
                        Append(log, Spawn("cargo", code)))
                /\ fs' = built
           ELSE /\ Goto("build_mkdir_output", Append(log, Spawn("cargo", code)))
                /\ fs' = built
    /\ UNCHANGED <<host, fs0, cmd, resp, runs, setup_ok>>

\* lines 220-226
BuildMkdirOutput ==
    /\ pc = "build_mkdir_output"
    /\ IF Exists(fs, output_root)
       THEN /\ Goto("build_select_target", log)
            /\ UNCHANGED fs
       ELSE \E ok \in BOOLEAN :
              IF ok THEN /\ fs' = MkdirAll(fs, output_root)
                         /\ Goto("build_select_target", log)
              ELSE /\ Fail("build_and_install", ErrorAt("Io", output_root), log)
                   /\ UNCHANGED fs
    /\ UNCHANGED <<host, fs0, cmd, resp, runs, setup_ok>>

\* lines 228-240
BuildSelectTarget ==
    /\ pc = "build_select_target"
    /\ IF ~Supported(host)
       THEN /\ Fail("build_and_install", Error("UnsupportedOS"), log)
            /\ UNCHANGED fs
       ELSE IF Exists(fs, BuildTarget(host)[3])
       THEN /\ Goto("build_copy", log)
            /\ UNCHANGED fs
       ELSE \E ok \in BOOLEAN :
              IF ok THEN /\ fs' = MkdirAll(fs, BuildTarget(host)[3])
                         /\ Goto("build_copy", log)
              ELSE /\ Fail("build_and_install", ErrorAt("Io", BuildTarget(host)[3]), log)
                   /\ UNCHANGED fs
    /\ UNCHANGED <<host, fs0, cmd, resp, runs, setup_ok>>

\* mutant of BuildCopy: a missing artifact is skipped and the descriptor is
\* generated all the same
BuildCopy_MissingSkipped ==
    /\ pc = "build_copy"
    /\ LET src == ArtifactSrc(host, ReleaseArg(cmd))
           dst == ArtifactDst(host)
       IN IF Exists(fs, src)
          THEN \E ok \in BOOLEAN :
                 IF ok THEN /\ fs' = WriteFile(fs, dst, fs[src].data)
                            /\ Goto("generate_gdextension_file", Append(log, Did("copy_artifact")))
                 ELSE /\ Fail("build_and_install", ErrorAt("Io", dst), log)
                      /\ UNCHANGED fs
          ELSE /\ Goto("generate_gdextension_file", log)
               /\ UNCHANGED fs
    /\ UNCHANGED <<host, fs0, cmd, resp, runs, setup_ok>>

\* lines 242-248 and 252-254
BuildCopy ==
    /\ pc = "build_copy"
    /\ LET src == ArtifactSrc(host, ReleaseArg(cmd))
           dst == ArtifactDst(host)
       IN IF Exists(fs, src)
          THEN \E ok \in BOOLEAN :
                 IF ok THEN /\ fs' = WriteFile(fs, dst, fs[src].data)
                            /\ Goto("generate_gdextension_file", Append(log, Did("copy_artifact")))
                 ELSE /\ Fail("build_and_install", ErrorAt("Io", dst), log)
                      /\ UNCHANGED fs
          ELSE /\ Fail("build_and_install", ErrorAt("ArtifactNotFound", src), log)
               /\ UNCHANGED fs
    /\ UNCHANGED <<host, fs0, cmd, resp, runs, setup_ok>>

\* mutant of GenerateGdextensionFile: an existing descriptor is kept, as the
\* export presets are
GenerateGdextensionFile_IfAbsent ==
    /\ pc = "generate_gdextension_file"
    /\ IF Exists(fs, gdext_path("game"))
       THEN /\ Finish("build_and_install", log)
            /\ UNCHANGED fs
       ELSE /\ fs' = WriteFile(fs, gdext_path("game"), GdextContent("game"))
            /\ Finish("build_and_install", Append(log, Did("write_descriptor")))
    /\ UNCHANGED <<host, fs0, cmd, resp, runs, setup_ok>>

\* lines 183-204, called at line 251 with crate_name = "game"; then line 256.
\* fs::write creates or truncates the file and then writes: when it fails the
\* file is untouched or left empty
GenerateGdextensionFile ==
    /\ pc = "generate_gdextension_file"
    /\ \E how \in {"written", "untouched", "truncated"} :
        IF how = "written"
        THEN /\ fs' = WriteFile(fs, gdext_path("game"), GdextContent("game"))
             /\ Finish("build_and_install", Append(log, Did("write_descriptor")))
        ELSE /\ fs' = IF how = "truncated" THEN WriteFile(fs, gdext_path("game"), {}) ELSE fs
             /\ Fail("build_and_install", ErrorAt("Io", gdext_path("game")), log)
    /\ UNCHANGED <<host, fs0, cmd, resp, runs, setup_ok>>

build_and_install ==
    \/ BuildCargo \/ BuildMkdirOutput \/ BuildSelectTarget \/ BuildCopy
    \/ GenerateGdextensionFile

(***************************************************************************)
(* run_godot                                                               *)
(***************************************************************************)
\* mutant of RunCheckExe: no check of the executable before the project
\* directory is prepared
RunCheckExe_NoCheck ==
    /\ pc = "run_check_exe"
    /\ Goto("run_mkdir_game", log)
    /\ UNCHANGED <<host, fs, fs0, cmd, resp, runs, setup_ok>>

\* lines 260-266
RunCheckExe ==
    /\ pc = "run_check_exe"
    /\ IF ~Exists(fs, godot_exe(host))
       THEN Fail("run_godot", ErrorAt("GodotExecutableNotFound", godot_exe(host)), log)
       ELSE Goto("run_mkdir_game", log)
    /\ UNCHANGED <<host, fs, fs0, cmd, resp, runs, setup_ok>>

\* lines 268-271
RunMkdirGame ==
    /\ pc = "run_mkdir_game"
    /\ IF Exists(fs, game_dir)
       THEN /\ Goto("run_project_file", log)
            /\ UNCHANGED fs
       ELSE \E ok \in BOOLEAN :
              IF ok THEN /\ fs' = MkdirAll(fs, game_dir)
                         /\ Goto("run_project_file", log)
              ELSE /\ Fail("run_godot", ErrorAt("Io", game_dir), log)
                   /\ UNCHANGED fs
    /\ UNCHANGED <<host, fs0, cmd, resp, runs, setup_ok>>

\* lines 273-293: File::create, then write_all
RunProjectFile ==
    /\ pc = "run_project_file"
    /\ IF Exists(fs, project_file)
       THEN /\ Goto("run_launch", log)
            /\ UNCHANGED fs
       ELSE \E how \in {"written", "create_failed", "write_failed"} :
              IF how = "written"
              THEN /\ fs' = WriteFile(fs, project_file, ProjectContent)
                   /\ Goto("run_launch", Append(log, Did("write_project")))
              ELSE /\ fs' = IF how = "write_failed" THEN WriteFile(fs, project_file, {}) ELSE fs
                   /\ Fail("run_godot", ErrorAt("Io", project_file), log)
    /\ UNCHANGED <<host, fs0, cmd, resp, runs, setup_ok>>

\* mutant of RunLaunch: a nonzero engine status is an error, as in package_game
RunLaunch_StatusChecked ==
    /\ pc = "run_launch"
    /\ \E canon \in BOOLEAN, code \in {-1} \cup ExitCodes :
        LET prog == IF cmd.name = "editor" THEN "godot -e" ELSE "godot"
        IN IF ~canon
           THEN /\ code = -1
                /\ Fail("run_godot", Error("Canonicalize"), log)
           ELSE IF code # 0
           THEN Fail("run_godot", Error("LaunchFailed"), Append(log, Spawn(prog, code)))
           ELSE Finish("run_godot", Append(log, Spawn(prog, code)))
    /\ UNCHANGED <<host, fs, fs0, cmd, resp, runs, setup_ok>>

\* lines 295-315: canonicalize both paths, spawn the engine and wait for it;
\* the ExitStatus that status() returns is dropped
RunLaunch ==
    /\ pc = "run_launch"
    /\ \E canon \in BOOLEAN, code \in {-1} \cup ExitCodes :
        LET prog == IF cmd.name = "editor" THEN "godot -e" ELSE "godot"
        IN IF ~canon
           THEN /\ code = -1
                /\ Fail("run_godot", Error("Canonicalize"), log)
           ELSE IF code = -1
           THEN Fail("run_godot", Error("LaunchFailed"), Append(log, Spawn(prog, code)))
           ELSE Finish("run_godot", Append(log, Spawn(prog, code)))
    /\ UNCHANGED <<host, fs, fs0, cmd, resp, runs, setup_ok>>

run_godot ==
    \/ RunCheckExe \/ RunMkdirGame \/ RunProjectFile \/ RunLaunch

(***************************************************************************)
(* ensure_export_presets and package_game                                  *)
(***************************************************************************)
\* mutant of ensure_export_presets: the presets are written whether or not
\* the file exists
ensure_export_presets_Overwrite ==
    /\ pc = "ensure_export_presets"
    /\ fs' = WriteFile(fs, presets_path, PresetsContent(host))
    /\ Finish("ensure_export_presets", Append(log, Did("write_presets")))
    /\ UNCHANGED <<host, fs0, cmd, resp, runs, setup_ok>>

\* lines 318-345
ensure_export_presets ==
    /\ pc = "ensure_export_presets"
    /\ IF Exists(fs, presets_path)
       THEN /\ Finish("ensure_export_presets", log)
            /\ UNCHANGED fs
       ELSE \E how \in {"written", "untouched", "truncated"} :
              IF how = "written"
              THEN /\ fs' = WriteFile(fs, presets_path, PresetsContent(host))
                   /\ Finish("ensure_export_presets", Append(log, Did("write_presets")))
              ELSE /\ fs' = IF how = "truncated" THEN WriteFile(fs, presets_path, {}) ELSE fs
                   /\ Fail("ensure_export_presets", ErrorAt("Io", presets_path), log)
    /\ UNCHANGED <<host, fs0, cmd, resp, runs, setup_ok>>

\* lines 348-356
PkgMkdirBuilds ==
    /\ pc = "pkg_mkdir_builds"
    /\ IF Exists(fs, builds_dir)
       THEN /\ Goto("pkg_mkdir_platform", log)
            /\ UNCHANGED fs
       ELSE \E ok \in BOOLEAN :
              IF ok THEN /\ fs' = Mkdir(fs, builds_dir)
                         /\ Goto("pkg_mkdir_platform", log)
              ELSE /\ Fail("package_game", ErrorAt("Io", builds_dir), log)
                   /\ UNCHANGED fs
    /\ UNCHANGED <<host, fs0, cmd, resp, runs, setup_ok>>

\* lines 358-364
PkgMkdirPlatform ==
    /\ pc = "pkg_mkdir_platform"
    /\ \E ok \in BOOLEAN :
        IF ok THEN /\ fs' = MkdirAll(fs, Parent(output_path(host)))
                   /\ Goto("pkg_export", log)
        ELSE /\ Fail("package_game", ErrorAt("Io", Parent(output_path(host))), log)
             /\ UNCHANGED fs
    /\ UNCHANGED <<host, fs0, cmd, resp, runs, setup_ok>>

\* lines 366-389: canonicalize fails when the executable is absent (there is
\* no check of its own); the exporter's status decides the result
PkgExport ==
    /\ pc = "pkg_export"
    /\ IF ~Exists(fs, godot_exe(host))
       THEN /\ Fail("package_game", ErrorAt("Io", godot_exe(host)), log)
            /\ UNCHANGED fs
       ELSE \E code \in {-1} \cup ExitCodes :
              IF code = -1
              THEN /\ Fail("package_game", Error("Io"), Append(log, Spawn("godot --export-release", code)))
                   /\ UNCHANGED fs
              ELSE IF code = 0
              THEN /\ fs' = WriteFile(fs, output_path(host),
                                      {<<"export", get_platform_export_name(host)[1]>>})
                   /\ Finish("package_game", Append(log, Spawn("godot --export-release", code)))
              ELSE /\ Fail("package_game", Error("ExportFailed"),
                           Append(log, Spawn("godot --export-release", code)))
                   /\ UNCHANGED fs
    /\ UNCHANGED <<host, fs0, cmd, resp, runs, setup_ok>>

package_game ==
    \/ PkgMkdirBuilds \/ PkgMkdirPlatform \/ PkgExport

(***************************************************************************)
(* The specification.                                                      *)
(***************************************************************************)
Next ==
    \/ Invoke
    \/ setup_godot
    \/ build_and_install
    \/ run_godot
    \/ ensure_export_presets
    \/ package_game

Spec == Init /\ [][Next]_vars

TypeOK ==
    /\ host \in Hosts
    /\ DOMAIN fs = Paths(host)
    /\ \A p \in DOMAIN fs : fs[p].kind \in {"absent", "dir", "file"}
    /\ result \in {"none", "ok", "err"}
    /\ runs \in 0..MaxRuns

\* every existing path has an existing parent directory
WellFormed ==
    \A p \in DOMAIN fs : (p # Root /\ Exists(fs, p)) => IsDir(fs, Parent(p))

(***************************************************************************)
(* Reading the log and the filesystem.                                     *)
(***************************************************************************)
Has(e) == \E i \in 1..Len(log) : log[i] = e

Returned(fn, ok) == Has(Ret(fn, ok))

Gets == {i \in 1..Len(log) : log[i].ev = "GET"}

Spawns(progs) == {i \in 1..Len(log) : log[i].ev = "spawn" /\ log[i].what \in progs}

Engine == {"godot", "godot -e"}
Exporter == {"godot --export-release"}

Launching == cmd.name \in {"editor", "run"}

\* the filesystem outside cargo's own output tree
OutsideTarget(f) == [p \in {q \in DOMAIN f : ~IsPrefix(<<"target">>, q)} |-> f[p]]

\* the paths a res:// string of the descriptor denotes: res:// is the project
\* directory the engine is started on (game/)
Resolve(value) ==
    {p \in DOMAIN fs : IsPrefix(game_dir, p) /\ p # game_dir
                        /\ "res://" \o PathStr(Below(game_dir, p)) = value}

\* the descriptor's keys for host h
HostKeys(h) ==
    IF h = "windows" THEN {"windows.debug.x86_64", "windows.release.x86_64"}
    ELSE IF h = "macos" THEN {"macos.debug.arm64", "macos.release.arm64"}
    ELSE IF h = "linux" THEN {"linux.debug.x86_64", "linux.release.x86_64"}
    ELSE {}

\* the descriptor as the engine's extension loader must read it
ExpectedManifest ==
    {<<"entry_symbol", "gdext_rust_init">>,
     <<"compatibility_minimum", "4.1">>,
     <<"linux.debug.x86_64", "res://bin/game/linux/libgame.so">>,
     <<"linux.release.x86_64", "res://bin/game/linux/libgame.so">>,
     <<"macos.debug.arm64", "res://bin/game/macos/arm64/libgame.dylib">>,
     <<"macos.release.arm64", "res://bin/game/macos/arm64/libgame.dylib">>,
     <<"windows.debug.x86_64", "res://bin/game/windows/game.dll">>,
     <<"windows.release.x86_64", "res://bin/game/windows/game.dll">>}

Descriptor == <<"game", "game.gdextension">>

(***************************************************************************)
(* C1.  As claimed: a second run of Setup that finds the templates         *)
(* directory of the current version sends no network request at all.       *)
(***************************************************************************)
SecondSetup ==
    cmd.name = "setup" /\ setup_ok /\ Exists(fs0, version_dir(host))

C1_SecondSetupSendsNoRequest ==
    SecondSetup => Gets = {}

\* C1, amended: a second run of Setup that finds the templates directory
\* never requests the templates archive; it requests the editor archive once,
\* whatever is on disk, so a successful second run has sent exactly one
\* request and ends with the "Templates already installed" message.
C1_SecondSetupSkipsTemplatesOnly ==
    SecondSetup =>
        /\ \A i \in Gets : log[i].what = EditorUrl(host)
        /\ Cardinality(Gets) <= 1
        /\ pc \notin {"setup_mkdir_bin", "setup_download_editor"} => Cardinality(Gets) = 1
        /\ result = "ok" =>
              /\ log[1] = Get(EditorUrl(host), TRUE)
              /\ Has(Println("Templates already installed"))
              /\ fs[version_dir(host)] = fs0[version_dir(host)]

C1_Witness ==
    SecondSetup /\ result = "ok" /\ Cardinality(Gets) = 1

(***************************************************************************)
(* C2.  No step of any invocation changes game/export_presets.cfg or       *)
(* game/project.godot once the file exists: each is written only when it   *)
(* is absent.                                                              *)
(***************************************************************************)
C2_UserFilesNotClobbered ==
    [][/\ Exists(fs, presets_path) => fs'[presets_path] = fs[presets_path]
       /\ Exists(fs, project_file) => fs'[project_file] = fs[project_file]
       /\ fs'[presets_path] # fs[presets_path] => pc = "ensure_export_presets"
       /\ fs'[project_file] # fs[project_file] => pc = "run_project_file"]_vars

C2_Witness ==
    /\ Returned("ensure_export_presets", TRUE)
    /\ fs0[presets_path] = File(UserContent)
    /\ fs[presets_path] = File(UserContent)
    /\ ~Has(Did("write_presets"))

\* the same for project.godot: run_godot returned and the user's file stands
C2_WitnessProject ==
    /\ Returned("run_godot", TRUE)
    /\ fs0[project_file] = File(UserContent)
    /\ fs[project_file] = File(UserContent)

(***************************************************************************)
(* C3.  Once build_and_install has returned Ok, game/game.gdextension      *)
(* holds the fixed manifest, whatever it held before, on every host and    *)
(* for either profile.                                                     *)
(***************************************************************************)
C3_DescriptorOverwritten ==
    Returned("build_and_install", TRUE) => fs[Descriptor] = File(ExpectedManifest)

C3_Witness ==
    /\ Returned("build_and_install", TRUE)
    /\ fs0[Descriptor] = File(UserContent)
    /\ fs[Descriptor] = File(ExpectedManifest)

(***************************************************************************)
(* C4.  When build_and_install reaches the artifact check (after cargo     *)
(* exited with status 0) and the artifact is absent, it returns the error  *)
(* naming the expected artifact path without touching the filesystem; and  *)
(* in a run that ended with that error the descriptor is as it was found.  *)
(***************************************************************************)
C4_MissingArtifactIsFatal ==
    /\ [][(pc = "build_copy" /\ ~Exists(fs, ArtifactSrc(host, ReleaseArg(cmd)))) =>
            /\ result' = "err"
            /\ pc' = "done"
            /\ err' = ErrorAt("ArtifactNotFound", <<"target", IF ReleaseArg(cmd) THEN "release" ELSE "debug">>
                                                    \o <<ArtifactName(host)>>)
            /\ fs' = fs]_vars
    /\ [](err.kind = "ArtifactNotFound" =>
            /\ Has(Spawn("cargo", 0))
            /\ ~Returned("build_and_install", TRUE)
            /\ fs[Descriptor] = fs0[Descriptor])

C4_Witness ==
    /\ err.kind = "ArtifactNotFound"
    /\ result = "err"
    /\ Has(Spawn("cargo", 0))
    /\ fs0[Descriptor] = File(UserContent)
    /\ fs[Descriptor] = File(UserContent)

(***************************************************************************)
(* C5.  When cargo exits with a nonzero status the invocation has ended    *)
(* with the build-failed error, cargo was run once, nothing else was done  *)
(* and nothing outside cargo's own target/ tree has changed.               *)
(***************************************************************************)
C5_CargoFailureIsImmediate ==
    \A i \in Spawns({"cargo"}) : log[i].code > 0 =>
        /\ pc = "done"
        /\ result = "err"
        /\ err = Error("CargoBuildFailed")
        /\ log = <<log[i], Ret("build_and_install", FALSE)>>
        /\ OutsideTarget(fs) = OutsideTarget(fs0)

C5_Witness ==
    /\ err.kind = "CargoBuildFailed"
    /\ cmd.name = "package"
    /\ \E i \in Spawns({"cargo"}) : log[i].code > 0

(***************************************************************************)
(* C6.  As claimed: a launch subcommand invoked while the engine           *)
(* executable is absent ends with an error, the one about the missing      *)
(* executable (granting the build did not fail), and neither descriptor    *)
(* file of the project directory has been created by then.                 *)
(***************************************************************************)
Unprovisioned == Launching /\ ~Exists(fs0, godot_exe(host))

C6_LaunchChecksExecutableFirst ==
    (Unprovisioned /\ pc = "done") =>
        /\ result = "err"
        /\ ~Returned("build_and_install", FALSE) =>
              /\ err.kind = "GodotExecutableNotFound"
              /\ fs[Descriptor] = fs0[Descriptor]
              /\ fs[project_file] = fs0[project_file]

\* C6, amended: a launch subcommand invoked while the engine executable is
\* absent never spawns the engine and ends with an error; build_and_install
\* runs first, so the error is the build's own when the build fails, and the
\* one about the missing executable when the build succeeded, by which time
\* the build has written game/game.gdextension; run_godot itself creates
\* neither game/ nor project.godot before its check.
C6_LaunchChecksExecutableAfterBuild ==
    Unprovisioned =>
        /\ Spawns(Engine) = {}
        /\ pc = "done" => result = "err"
        /\ (pc = "done" /\ Returned("build_and_install", TRUE)) =>
              /\ err = ErrorAt("GodotExecutableNotFound", godot_exe(host))
              /\ log[Len(log)] = Ret("run_godot", FALSE)
              /\ fs[Descriptor] = File(ExpectedManifest)
        /\ err.kind = "GodotExecutableNotFound" => Returned("build_and_install", TRUE)
        /\ fs[project_file] = fs0[project_file]
        /\ ~Has(Did("write_project"))
        /\ (Exists(fs, game_dir) /\ ~Exists(fs0, game_dir)) => Exists(fs, output_root)

C6_Witness ==
    /\ Unprovisioned
    /\ err.kind = "GodotExecutableNotFound"
    /\ ~Exists(fs0, Descriptor)
    /\ fs[Descriptor] = File(ExpectedManifest)
    /\ ~Exists(fs, project_file)

(***************************************************************************)
(* C7.  Every subcommand stops at the first function that returns Err:     *)
(* the engine is spawned only after build_and_install returned Ok,         *)
(* ensure_export_presets runs only after build_and_install returned Ok,    *)
(* the exporter is spawned only after both returned Ok, and the invocation *)
(* ends Ok only if every function of its subcommand returned Ok.           *)
(***************************************************************************)
Before(i, e) == \E j \in 1..(i - 1) : log[j] = e

\* the functions main calls for a subcommand, in order
Calls(c) ==
    IF c.name = "setup" THEN <<"setup_godot">>
    ELSE IF c.name = "build" THEN <<"build_and_install">>
    ELSE IF c.name \in {"editor", "run"} THEN <<"build_and_install", "run_godot">>
    ELSE IF c.name = "package" THEN <<"build_and_install", "ensure_export_presets", "package_game">>
    ELSE <<>>

Returns == {i \in 1..Len(log) : log[i].ev = "return"}

C7_AbortAtFirstFailure ==
    /\ \A i \in Spawns(Engine) : Before(i, Ret("build_and_install", TRUE))
    /\ \A i \in 1..Len(log) :
          (log[i].what \in {"ensure_export_presets", "write_presets"}) =>
              Before(i, Ret("build_and_install", TRUE))
    /\ \A i \in Spawns(Exporter) :
          /\ Before(i, Ret("build_and_install", TRUE))
          /\ Before(i, Ret("ensure_export_presets", TRUE))
    /\ \A i \in Returns : log[i].code # 0 => (i = Len(log) /\ pc = "done" /\ result = "err")
    /\ result = "err" => (pc = "done" /\ log[Len(log)].ev = "return" /\ log[Len(log)].code # 0)
    /\ result = "ok" =>
          /\ pc = "done"
          /\ \A k \in 1..Len(Calls(cmd)) : Returned(Calls(cmd)[k], TRUE)
          /\ \A i \in Returns : log[i].code = 0

C7_Witness ==
    /\ cmd.name = "package"
    /\ result = "ok"
    /\ Spawns(Exporter) # {}

(***************************************************************************)
(* C8.  run_godot does not look at the engine's exit status: once the      *)
(* engine was spawned the launch ends Ok whatever the status, and only a   *)
(* failure to spawn is an error; package_game fails on a nonzero status    *)
(* of the exporter.                                                        *)
(***************************************************************************)
C8_EngineStatusIgnored ==
    /\ \A i \in Spawns(Engine) :
          /\ pc = "done"
          /\ log[i].code >= 0 => (result = "ok" /\ log[Len(log)] = Ret("run_godot", TRUE))
          /\ log[i].code = -1 => (result = "err" /\ err.kind = "LaunchFailed")
    /\ \A i \in Spawns(Exporter) :
          /\ pc = "done"
          /\ log[i].code > 0 => (result = "err" /\ err.kind = "ExportFailed")
          /\ log[i].code = 0 => result = "ok"

C8_Witness ==
    /\ result = "ok"
    /\ \E i \in Spawns(Engine) : log[i].code > 0

(***************************************************************************)
(* C9.  As claimed: once the templates archive was extracted into the      *)
(* scratch directory, the directory is gone when Setup returns, by rename, *)
(* by the copy fallback, and also when Setup returns the error about the   *)
(* missing templates folder or the error of the failed fallback.           *)
(***************************************************************************)
Extracted == cmd.name = "setup" /\ Has(Did("extract_templates"))

C9_ScratchRemovedOnEveryReturn ==
    (Extracted /\ pc = "done"
        /\ (result = "ok" \/ err.kind \in {"TemplatesFolderMissing", "Copy"}
            \/ err = ErrorAt("Io", version_dir(host)))) =>
        ~Exists(fs, tmp_extract)

\* C9, amended: once the templates archive was extracted into the scratch
\* directory, the directory is gone when Setup returns Ok, by rename or by
\* the copy fallback; when Setup returns an error after the extraction
\* (missing templates folder, failed fallback) the scratch directory is
\* left in place.
C9_ScratchRemovedOnSuccessOnly ==
    (Extracted /\ pc = "done") =>
        /\ result = "ok" =>
              /\ \A p \in DOMAIN fs : IsPrefix(<<".godot_bin", "tmp_templates">>, p) => ~Exists(fs, p)
              /\ Has(Did("rename")) \/ Has(Did("copy"))
              /\ Exists(fs, version_dir(host) \o <<"version.txt">>)
        /\ (result = "err" /\ (err.kind \in {"TemplatesFolderMissing", "Copy"}
                               \/ err = ErrorAt("Io", version_dir(host)))) =>
              Exists(fs, <<".godot_bin", "tmp_templates">>)

C9_Witness ==
    /\ Extracted
    /\ result = "ok"
    /\ Has(Did("copy"))
    /\ ~Exists(fs, tmp_extract)

\* the error return that leaves the scratch directory behind
C9_WitnessLeftBehind ==
    /\ Extracted
    /\ err.kind = "TemplatesFolderMissing"
    /\ Exists(fs, tmp_extract)

(***************************************************************************)
(* C10.  After build_and_install returned Ok on a supported host, every    *)
(* library path the descriptor lists for that host denotes exactly the     *)
(* file the artifact was copied to in this run, and that file exists.      *)
(***************************************************************************)
C10_DescriptorPointsAtArtifact ==
    Returned("build_and_install", TRUE) =>
        /\ Supported(host)
        /\ Has(Did("copy_artifact"))
        /\ \A k \in HostKeys(host) :
              \E line \in fs[Descriptor].data :
                  /\ line[1] = k
                  /\ Resolve(line[2]) = {ArtifactDst(host)}
                  /\ \A p \in Resolve(line[2]) :
                        /\ IsFile(fs, p)
                        /\ fs[p].data = fs[ArtifactSrc(host, ReleaseArg(cmd))].data

C10_Witness ==
    /\ Returned("build_and_install", TRUE)
    /\ host = "macos"
    /\ IsFile(fs, <<"game", "bin", "game", "macos", "arm64", "libgame.dylib">>)
    /\ ~Exists(fs0, <<"game", "bin", "game", "macos", "arm64", "libgame.dylib">>)

====
